---- MODULE Spec2Model ----
(***************************************************************************)
(* A model of the MoeBot <-> MQTT bridge (src/mqtt_handler.py,             *)
(* src/moebot_client.py).                                                  *)
(*                                                                         *)
(* The bridge object (class MoeBotMQTT) is shared by four execution        *)
(* contexts: the main thread (start(), later stop()), the supervisor       *)
(* thread (_supervisor_loop), the MQTT network thread (_on_mqtt_message -> *)
(* _handle_command) and the device listener thread of a session (push      *)
(* update -> _on_moebot_update).  Nothing in the code takes a lock, so     *)
(* every read and write of a bridge field is a separate step wherever      *)
(* another context can run in between.                                     *)
(*                                                                         *)
(* The device library (pymoebot / tinytuya) and the MQTT client library    *)
(* (paho) are not part of the repository.  They are the environment: the   *)
(* outcome of each of their calls (returns, raises, what it returns) is    *)
(* drawn from a small set.                                                 *)
(***************************************************************************)
EXTENDS Integers, Sequences, FiniteSets, TLC

(***************************************************************************)
(* Bounds of the model.                                                    *)
(***************************************************************************)
\* Device sessions (MoeBotClient objects) that can exist at the same time.
MaxSessions == 2
\* Messages the broker model remembers per topic (the most recent ones).
Window == 2

(***************************************************************************)
(* Program constants.                                                      *)
(***************************************************************************)
\* time.sleep(10) at the end of a supervisor cycle
CheckInterval == 10
\* if time_since_update > 60
StaleAfter == 60
\* time.sleep(2) in _restart_moebot
RestartPause == 2
\* time.sleep(5) in the supervisor's exception handler
ErrorPause == 5

(***************************************************************************)
(* Python values that reach _publish_stat, with their type: str(value) and *)
(* isinstance(value, bool) depend on it.                                   *)
(***************************************************************************)
PyInt(n)  == [t |-> "int",  i |-> n, s |-> "", b |-> FALSE]
PyStr(x)  == [t |-> "str",  i |-> 0, s |-> x,  b |-> FALSE]
PyBool(x) == [t |-> "bool", i |-> 0, s |-> "", b |-> x]
PyNone    == [t |-> "none", i |-> 0, s |-> "", b |-> FALSE]

\* str(value)
PyStrOf(v) ==
    CASE v.t = "int"  -> ToString(v.i)
      [] v.t = "str"  -> v.s
      [] v.t = "bool" -> IF v.b THEN "True" ELSE "False"
      [] OTHER        -> "None"

\* str.lower(), on the strings str(bool) produces
LowerBool(x) == IF x = "True" THEN "true" ELSE IF x = "False" THEN "false" ELSE x

\* payload = str(value).lower() if isinstance(value, bool) else str(value)
payload_of(v) == IF v.t = "bool" THEN LowerBool(PyStrOf(v)) ELSE PyStrOf(v)

(***************************************************************************)
(* Stat keys (topics under <topic>/stats/).                                *)
(***************************************************************************)
ZoneNumbers == 1..5
ZoneKeys == { "zone" \o ToString(i) \o "_distance" : i \in ZoneNumbers }
            \cup { "zone" \o ToString(i) \o "_ratio" : i \in ZoneNumbers }
Keys == { "battery", "state", "emergency_state", "mow_in_rain", "mow_time",
          "work_mode", "online", "machine_errors", "device_password" }
        \cup ZoneKeys

\* dict.get(stat_name) of a key never stored
Absent == "<absent>"

VARIABLES
    \* ---- fields of the bridge object (MoeBotMQTT)
    moebot,        \* self.moebot: 0 (None) or the id of a session
    mqtt_client,   \* self.mqtt_client is set
    running,       \* self.running
    stop_event,    \* self._supervisor_stop_event: "none" (no attribute), "clear", "set"
    last_stats,    \* self.last_stats, the StatCache: key -> payload or Absent
    \* ---- the broker
    sent,          \* per stat key, the most recent payloads published (newest last)
    \* ---- the device sessions (MoeBotClient objects) and the device
    sess,          \* session id -> record
    dev,           \* telemetry the device reports
    \* ---- execution contexts
    pc,            \* context -> position in its code
    loc,           \* context -> its local variables
    \* ---- the caller of the sequential publisher
    call,          \* the latest call of a function run on its own: its number and arguments
    \* ---- the constructor of a session, statement by statement
    neg,           \* the protocol negotiation in progress
    \* ---- the inbound channel
    cmd            \* the latest inbound message and what its handling did

vars == << moebot, mqtt_client, running, stop_event, last_stats, sent,
           sess, dev, pc, loc, call, neg, cmd >>

Last(q) == q[Len(q)]

\* The broker's view of one topic after one more message.
Push(q, p) == IF Len(q) < Window THEN Append(q, p) ELSE Append(Tail(q), p)

(***************************************************************************)
(* _publish_stat, run without interruption.  It maps the pair              *)
(* (last_stats, sent) to the pair after the call.                          *)
(***************************************************************************)
\* A plausible slip: the cache is not updated after the emission.
publish_stat_mutant(client, cache, out, key, value) ==
    LET payload == payload_of(value) IN
    IF ~client THEN [cache |-> cache, out |-> out]
    ELSE IF cache[key] = payload THEN [cache |-> cache, out |-> out]
    ELSE [cache |-> cache,
          out   |-> [out EXCEPT ![key] = Push(@, payload)]]

publish_stat(client, cache, out, key, value) ==
    LET payload == payload_of(value) IN
    IF ~client THEN [cache |-> cache, out |-> out]
    ELSE IF cache[key] = payload THEN [cache |-> cache, out |-> out]
    ELSE [cache |-> [cache EXCEPT ![key] = payload],
          out   |-> [out EXCEPT ![key] = Push(@, payload)]]

(***************************************************************************)
(* Text character by character: an inbound payload (and a string handed to *)
(* int()) is a sequence of one-character strings, so that strip(), lower() *)
(* and int() are computed as Python computes them.                         *)
(***************************************************************************)
\* The characters str.strip() removes (of those the model's payloads use)
IsSpace(c) == c \in { " ", "\t", "\n" }

RECURSIVE LStrip(_)
LStrip(s) == IF s # << >> /\ IsSpace(s[1]) THEN LStrip(Tail(s)) ELSE s

RECURSIVE RStrip(_)
RStrip(s) ==
    IF s # << >> /\ IsSpace(s[Len(s)]) THEN RStrip(SubSeq(s, 1, Len(s) - 1)) ELSE s

\* str.strip()
Strip(s) == RStrip(LStrip(s))

\* str.lower() of one character
LowerChar(c) ==
    CASE c = "A" -> "a" [] c = "B" -> "b" [] c = "C" -> "c" [] c = "D" -> "d"
      [] c = "E" -> "e" [] c = "F" -> "f" [] c = "G" -> "g" [] c = "H" -> "h"
      [] c = "I" -> "i" [] c = "J" -> "j" [] c = "K" -> "k" [] c = "L" -> "l"
      [] c = "M" -> "m" [] c = "N" -> "n" [] c = "O" -> "o" [] c = "P" -> "p"
      [] c = "Q" -> "q" [] c = "R" -> "r" [] c = "S" -> "s" [] c = "T" -> "t"
      [] c = "U" -> "u" [] c = "V" -> "v" [] c = "W" -> "w" [] c = "X" -> "x"
      [] c = "Y" -> "y" [] c = "Z" -> "z"
      [] OTHER -> c

\* str.lower()
Lower(s) == [ i \in 1..Len(s) |-> LowerChar(s[i]) ]

\* The string a sequence of characters spells
RECURSIVE Text(_)
Text(s) == IF s = << >> THEN "" ELSE s[1] \o Text(Tail(s))

\* The value of a decimal digit, -1 for any other character
DigitVal(c) ==
    CASE c = "0" -> 0 [] c = "1" -> 1 [] c = "2" -> 2 [] c = "3" -> 3
      [] c = "4" -> 4 [] c = "5" -> 5 [] c = "6" -> 6 [] c = "7" -> 7
      [] c = "8" -> 8 [] c = "9" -> 9
      [] OTHER -> -1

\* The digits of an int() literal without its sign: digits, with single
\* underscores allowed between two digits.  acc is the value so far and
\* prev the kind of the previous character ("none", "digit", "underscore").
RECURSIVE int_digits(_, _, _)
int_digits(s, acc, prev) ==
    IF s = << >> THEN [ok |-> prev = "digit", value |-> acc]
    ELSE IF DigitVal(s[1]) >= 0
         THEN int_digits(Tail(s), 10 * acc + DigitVal(s[1]), "digit")
    ELSE IF s[1] = "_" /\ prev = "digit"
         THEN int_digits(Tail(s), acc, "underscore")
    ELSE [ok |-> FALSE, value |-> 0]

\* int(payload) of a str: surrounding whitespace is ignored, one sign is
\* allowed; ok = FALSE is ValueError.
py_int(s) ==
    LET t == Strip(s) IN
    IF t = << >> THEN [ok |-> FALSE, value |-> 0]
    ELSE IF t[1] = "-"
         THEN LET r == int_digits(Tail(t), 0, "none")
              IN  [ok |-> r.ok, value |-> 0 - r.value]
    ELSE IF t[1] = "+" THEN int_digits(Tail(t), 0, "none")
    ELSE int_digits(t, 0, "none")

(***************************************************************************)
(* TelemetryDecoder (src/moebot_client.py).                                *)
(***************************************************************************)
\* ErrorDecoder.ERROR_CODES: the name of bit b is ERROR_CODES[b + 1]
ERROR_CODES ==
    << "FAULT_LEAN", "FAULT_TOO_STEEP", "NO_SIGNAL", "L_MOTOR_ERROR",
       "R_MOTOR_ERROR", "BATTERY_VOL_HIGH", "CHARGE_OVERCURRENT",
       "CHARGE_OVERVOLTAGE", "CHARGE_OVERTEMP", "BATTERY_DAMAGE",
       "BATTERY_LOW", "DISCHARGE_CURRENT", "DISCHARGE_TEMP",
       "UNEXPECTED_LOW", "EXPECTED_ERROR", "IMU_INVALID", "EMS_INVALID",
       "RAIN_INVALID", "HALL_INVALID", "STEEP_OVER_3S", "OUTSIDE_AREA",
       "LIFTED", "TRAPPED", "B_MOTOR_ERROR", "OVERTURN",
       "MOTOR_OVERCURRENT", "MOTOR_HALL", "MOTOR_DISCONNECT",
       "EMS_DISCONNECT", "MOTOR_ERROR" >>

\* 1 << bit_position
Pow2(n) == 2 ^ n

\* A plausible slip: the mask is shifted by one position too many.
BitSet_mutant(v, b) == (v \div Pow2(b + 1)) % 2 = 1

\* error_value & (1 << bit_position) is not zero
BitSet(v, b) == (v \div Pow2(b)) % 2 = 1

RECURSIVE decode_from(_, _)
decode_from(v, b) ==
    IF b >= Len(ERROR_CODES) THEN << >>
    ELSE (IF BitSet(v, b) THEN << ERROR_CODES[b + 1] >> ELSE << >>)
         \o decode_from(v, b + 1)

\* A str given by its characters, and a finite float given in tenths: the
\* values besides int that int() can convert.
PyText(cs)      == [t |-> "text",  i |-> 0, s |-> Text(cs), b |-> FALSE, cs |-> cs]
PyFloat(tenths) == [t |-> "float", i |-> tenths, s |-> "", b |-> FALSE]

\* int(x) of a finite float: truncation towards zero
float_int(tenths) ==
    IF tenths >= 0 THEN tenths \div 10 ELSE 0 - ((0 - tenths) \div 10)

\* ErrorDecoder.decode: a value that is no int is converted with int(); when
\* int() raises ValueError or TypeError the result is [].  (A bool is an int
\* in Python; None is a TypeError; a PyStr of the model spells no numeral.)
decode_errors(v) ==
    IF v.t = "int" THEN decode_from(v.i, 0)
    ELSE IF v.t = "bool" THEN decode_from(IF v.b THEN 1 ELSE 0, 0)
    ELSE IF v.t = "text"
         THEN LET r == py_int(v.cs)
              IN  IF r.ok THEN decode_from(r.value, 0) ELSE << >>
    ELSE IF v.t = "float" THEN decode_from(float_int(v.i), 0)
    ELSE << >>

\* ",".join(names)
RECURSIVE Join(_)
Join(names) ==
    IF names = << >> THEN ""
    ELSE IF Len(names) = 1 THEN names[1]
    ELSE names[1] \o "," \o Join(Tail(names))

\* The decimal digits of n >= 0, most significant first: str(n)
RECURSIVE Digits(_)
Digits(n) == IF n < 10 THEN << n >> ELSE Append(Digits(n \div 10), n % 10)

\* A plausible slip: the table lacks its last entry.
DigitToLetter_mutant(d) ==
    CASE d = 1 -> "A" [] d = 2 -> "B" [] d = 3 -> "C"
      [] OTHER -> ToString(d)

\* PasswordDecoder.DIGIT_TO_LETTER, other digits pass through
DigitToLetter(d) ==
    CASE d = 1 -> "A" [] d = 2 -> "B" [] d = 3 -> "C" [] d = 4 -> "D"
      [] OTHER -> ToString(d)

RECURSIVE MapDigits(_)
MapDigits(ds) ==
    IF ds = << >> THEN "" ELSE DigitToLetter(ds[1]) \o MapDigits(Tail(ds))

\* One character of str(password_value) through DIGIT_TO_LETTER
CharToLetter(c) ==
    IF DigitVal(c) >= 0 THEN DigitToLetter(DigitVal(c)) ELSE c

\* PasswordDecoder.decode.  (The ints of the model are not negative; str() of
\* a bool holds no digit; a PyStr of the model spells no digit.)
decode_password(v) ==
    IF v.t = "none" THEN ""
    ELSE IF v.t = "int" THEN MapDigits(Digits(v.i))
    ELSE IF v.t = "bool" THEN PyStrOf(v)
    ELSE IF v.t = "text" THEN Text([ i \in 1..Len(v.cs) |-> CharToLetter(v.cs[i]) ])
    ELSE v.s

(***************************************************************************)
(* What a session reports of the device.  The properties battery, state,   *)
(* ... read the session's copy of the device state; machine_errors and     *)
(* password query the device (fields "102" and "106" of its status).       *)
(***************************************************************************)
\* One zone: (distance, ratio)
Zone0 == << 0, 0 >>

\* The telemetry of the device in the supervisor model.
Dev0 ==
    [ battery         |-> PyInt(50),
      state           |-> PyStr("STANDBY"),
      emergency_state |-> PyNone,
      mow_in_rain     |-> PyBool(FALSE),
      mow_time        |-> PyInt(8),
      work_mode       |-> PyStr("1"),
      online          |-> PyBool(TRUE),
      zones           |-> [ z \in ZoneNumbers |-> Zone0 ],
      has_zones       |-> TRUE,
      dps102          |-> PyInt(0),
      dps106          |-> PyInt(1234) ]

\* Python truthiness of a value
Truthy(v) ==
    CASE v.t = "int"  -> v.i # 0
      [] v.t = "str"  -> v.s # ""
      [] v.t = "bool" -> v.b
      [] OTHER        -> FALSE

\* MoeBotClient.machine_errors: [] when the field is missing
machine_errors(d) == IF d.dps102.t = "none" THEN << >> ELSE decode_errors(d.dps102)

\* MoeBotClient.password
password(d) ==
    IF d.dps106.t = "none" THEN [numeric |-> PyNone, letter |-> ""]
    ELSE [numeric |-> d.dps106, letter |-> decode_password(d.dps106)]

\* A plausible slip: the substate is published whatever the state is.
emergency_value_mutant(d) ==
    IF Truthy(d.emergency_state) THEN d.emergency_state ELSE PyStr("")

\* if self.moebot.state == "EMERGENCY" and self.moebot.emergency_state: ...
emergency_value(d) ==
    IF d.state = PyStr("EMERGENCY") /\ Truthy(d.emergency_state)
    THEN d.emergency_state ELSE PyStr("")

RECURSIVE zone_stats(_, _)
zone_stats(d, i) ==
    IF i > 5 THEN << >>
    ELSE << << "zone" \o ToString(i) \o "_distance", PyInt(d.zones[i][1]) >>,
            << "zone" \o ToString(i) \o "_ratio",    PyInt(d.zones[i][2]) >> >>
         \o zone_stats(d, i + 1)

\* The (key, value) pairs _publish_all_stats hands to _publish_stat, in order.
all_stats(d) ==
    << << "battery", d.battery >>,
       << "state", d.state >>,
       << "emergency_state", emergency_value(d) >>,
       << "mow_in_rain", d.mow_in_rain >>,
       << "mow_time", d.mow_time >>,
       << "work_mode", d.work_mode >>,
       << "online", d.online >> >>
    \o (IF d.has_zones THEN zone_stats(d, 1) ELSE << >>)
    \o << << "machine_errors",
             IF machine_errors(d) # << >> THEN PyStr(Join(machine_errors(d)))
             ELSE PyStr("None") >> >>
    \o (IF Truthy(password(d).numeric)
        THEN << << "device_password", PyStr(password(d).letter) >> >>
        ELSE << >>)

\* The telemetry records the model draws the device's reports from, and what
\* _publish_all_stats hands on for each of them (a table, computed once).
StateValues == { PyStr("STANDBY"), PyStr("MOWING"), PyStr("EMERGENCY") }
SubstateValues == { PyNone, PyStr(""), PyStr("LIFTED") }
MowTimes == { 0, 1, 7, 8, 50, 99, 100 }
ErrorBitmaps == { PyInt(0), PyInt(3) }
PasswordValues == { PyNone, PyInt(0), PyInt(1234) }

Telemetries ==
    { [Dev0 EXCEPT !.state = st, !.emergency_state = es, !.mow_in_rain = PyBool(r),
                   !.mow_time = PyInt(mt), !.dps102 = e, !.dps106 = pw] :
        st \in StateValues, es \in SubstateValues, r \in BOOLEAN,
        mt \in MowTimes, e \in ErrorBitmaps, pw \in PasswordValues }
StatsOf == [ d \in Telemetries |-> all_stats(d) ]

\* The calls of _publish_stat one after the other.  (Each intermediate
\* result is bound as a value, so that it is computed once.)
RECURSIVE publish_seq(_, _, _, _)
publish_seq(client, cache, out, stats) ==
    IF stats = << >> THEN [cache |-> cache, out |-> out]
    ELSE CHOOSE res \in
            { publish_seq(client, r.cache, r.out, rest) :
                r \in { publish_stat(client, cache, out, stats[1][1], stats[1][2]) },
                rest \in { Tail(stats) } } : TRUE

\* _publish_all_stats, run without interruption.  session = 0 is
\* self.moebot is None: the first read raises AttributeError, which the
\* function's own handler logs.
publish_all_stats(client, cache, out, session, d) ==
    IF session = 0 THEN [cache |-> cache, out |-> out]
    ELSE CHOOSE res \in
            { publish_seq(client, cache, out, stats) : stats \in { StatsOf[d] } } : TRUE

(***************************************************************************)
(* MoeBotClient.__ensure_connection: protocol negotiation.                 *)
(*                                                                         *)
(* A response of the device to status() under one protocol version:        *)
(*   kind "raise"  status() raises                                         *)
(*   kind "nodps"  a mapping without 'dps' (an error response)             *)
(*   kind "dps"    a mapping with 'dps'; wellformed says whether the       *)
(*                 parent's __parse_payload accepts it or raises           *)
(***************************************************************************)
\* versions_to_try = [3.4, 3.3], in tenths
versions_to_try == << 34, 33 >>

Batteries == { 20, 50, 80, 100 }

Responses ==
    { [kind |-> "raise", wellformed |-> FALSE, battery |-> 0],
      [kind |-> "nodps", wellformed |-> FALSE, battery |-> 0] }
    \cup [kind : {"dps"}, wellformed : BOOLEAN, battery : Batteries]

\* last_update of a session that never parsed a payload (None)
NoUpdate == -1

\* The negotiation before the loop: connected = False, nothing probed.
NegStart ==
    [ at        |-> "set_version",   \* the statement of the loop body to run next
      i         |-> 1,               \* index of the candidate in versions_to_try
      version   |-> 0,               \* the version in force on the device object
      connected |-> FALSE,           \* the local variable connected
      seed      |-> PyNone,          \* the battery level the parsed payload gave
      probed    |-> << >>,           \* the versions status() was called under
      log       |-> << >>,           \* the responses received
      resp      |-> [kind |-> "raise", wellformed |-> FALSE, battery |-> 0] ]

\* for version in versions_to_try: the next candidate, or the end of the loop
neg_next(n) ==
    IF n.i >= Len(versions_to_try) THEN [n EXCEPT !.at = "done"]
    ELSE [n EXCEPT !.at = "set_version", !.i = @ + 1]

\* self._device.set_version(version)
neg_set_version(n) ==
    [n EXCEPT !.version = versions_to_try[n.i], !.at = "status"]

\* status = self._device.status(); if 'dps' in status: connected = True
neg_status(n, r) ==
    LET m == [n EXCEPT !.probed = Append(@, n.version), !.log = Append(@, r),
                       !.resp = r] IN
    IF r.kind = "dps" THEN [m EXCEPT !.connected = TRUE, !.at = "parse"]
    ELSE neg_next(m)

\* A plausible slip: the break is missing.
neg_parse_mutant(n) ==
    IF n.resp.wellformed
    THEN neg_next([n EXCEPT !.seed = PyInt(n.resp.battery)])
    ELSE neg_next(n)

\* parse_method(status); break  -- or the except clause, and the next candidate
neg_parse(n) ==
    IF n.resp.wellformed
    THEN [n EXCEPT !.seed = PyInt(n.resp.battery), !.at = "done"]
    ELSE neg_next(n)

\* One statement of the loop body, given the response the device gives under
\* each candidate.
neg_step(n, resps) ==
    CASE n.at = "set_version" -> neg_set_version(n)
      [] n.at = "status"      -> neg_status(n, resps[n.i])
      [] OTHER                -> neg_parse(n)

\* The whole loop, given the response the device gives under each candidate.
\* (Each intermediate state is bound as a value, so that it is computed once.)
RECURSIVE ensure_connection_from(_, _)
ensure_connection_from(n, resps) ==
    IF n.at = "done" THEN n
    ELSE CHOOSE res \in
            { ensure_connection_from(m, resps) : m \in { neg_step(n, resps) } } : TRUE

ensure_connection(resps) == ensure_connection_from(NegStart, resps)

(***************************************************************************)
(* _on_mqtt_message and _handle_command, run without interruption.         *)
(*                                                                         *)
(* The result of a command:                                                *)
(*   dev       the device's telemetry after it                             *)
(*   cache     last_stats after it                                         *)
(*   out       the broker's topics after it                                *)
(*   devcalls  the calls made on self.moebot, in order                     *)
(*   pubs      the keys _publish_stat was called with, in order            *)
(*   raised    the exception that ended the body of the try, "" if none    *)
(*                                                                         *)
(* Inputs besides the message:                                             *)
(*   session   self.moebot (0 is None)                                     *)
(*   fails     the call on the device raises (for the two reading          *)
(*             properties: the read fails, which they catch themselves)    *)
(*   after     the state the session reports after a state command         *)
(***************************************************************************)
\* The exceptions of the model; all of them derive from Exception.
AttributeError == "AttributeError"
ValueError     == "ValueError"
DeviceError    == "DeviceError"
IsException(e) == e \in { AttributeError, ValueError, DeviceError }

\* self._publish_all_stats() inside a command
cmd_publish_all(client, r, session) ==
    LET p == publish_all_stats(client, r.cache, r.out, session, r.dev)
    IN  [r EXCEPT !.cache = p.cache, !.out = p.out,
                  !.pubs = @ \o [ i \in 1..Len(StatsOf[r.dev]) |-> StatsOf[r.dev][i][1] ]]

\* A plausible slip: a full _publish_all_stats instead of the one stat.
cmd_publish_mutant(client, r, key, value) == cmd_publish_all(client, r, 1)

\* self._publish_stat(key, value) inside a command
cmd_publish(client, r, key, value) ==
    LET p == publish_stat(client, r.cache, r.out, key, value)
    IN  [r EXCEPT !.cache = p.cache, !.out = p.out, !.pubs = Append(@, key)]

\* A plausible slip: the lower bound of the range is off by one.
mow_time_ok_mutant(hours) == 0 <= hours /\ hours <= 99

\* if 1 <= hours <= 99
mow_time_ok(hours) == 1 <= hours /\ hours <= 99

StateCommands == { "start", "pause", "cancel", "dock" }
EnableWords  == { "true", "1", "on", "yes" }
DisableWords == { "false", "0", "off", "no" }

\* The body of the try statement of _handle_command.
command_body(client, cache, out, session, d, command, payload, fails, after) ==
    LET r0 == [dev |-> d, cache |-> cache, out |-> out,
               devcalls |-> << >>, pubs |-> << >>, raised |-> ""]
        \* self.moebot is None: the attribute access raises
        none == [r0 EXCEPT !.raised = AttributeError]
        \* the call on the device raises
        failed(name) == [r0 EXCEPT !.devcalls = << name >>, !.raised = DeviceError]
    IN
    CASE command \in StateCommands ->
           LET name == IF command = "start" /\ Text(Lower(payload)) = "spiral"
                       THEN "start_spiral" ELSE command
           IN  IF session = 0 THEN none
               ELSE IF fails THEN failed(name)
               ELSE cmd_publish(client,
                                [r0 EXCEPT !.dev.state = after, !.devcalls = << name >>],
                                "state", after)
      [] command = "mow_time" ->
           LET hours == py_int(payload) IN
           IF ~hours.ok THEN r0
           ELSE IF ~mow_time_ok(hours.value) THEN r0
           ELSE IF session = 0 THEN none
           ELSE IF fails THEN failed("set_mow_time")
           ELSE cmd_publish(client,
                            [r0 EXCEPT !.dev.mow_time = PyInt(hours.value),
                                       !.devcalls = << "set_mow_time" >>],
                            "mow_time", PyInt(hours.value))
      [] command = "mow_in_rain" ->
           IF Text(payload) \in EnableWords \cup DisableWords
           THEN LET on == Text(payload) \in EnableWords IN
                IF session = 0 THEN none
                ELSE IF fails THEN failed("set_mow_in_rain")
                ELSE cmd_publish(client,
                                 [r0 EXCEPT !.dev.mow_in_rain = PyBool(on),
                                            !.devcalls = << "set_mow_in_rain" >>],
                                 "mow_in_rain",
                                 PyStr(IF on THEN "true" ELSE "false"))
           ELSE r0
      [] command = "poll" ->
           IF session = 0 THEN none
           ELSE IF fails THEN failed("poll")
           ELSE cmd_publish_all(client, [r0 EXCEPT !.devcalls = << "poll" >>], session)
      [] command = "get_errors" ->
           IF session = 0 THEN none
           ELSE LET errors == IF fails THEN << >> ELSE machine_errors(d)
                IN  cmd_publish(client,
                                [r0 EXCEPT !.devcalls = << "machine_errors" >>],
                                "machine_errors",
                                IF errors # << >> THEN PyStr(Join(errors))
                                ELSE PyStr("None"))
      [] command = "get_password" ->
           IF session = 0 THEN none
           ELSE LET password_data == IF fails THEN [numeric |-> PyNone, letter |-> ""]
                                     ELSE password(d)
                    r1 == [r0 EXCEPT !.devcalls = << "password" >>]
                IN  IF Truthy(password_data.numeric)
                    THEN cmd_publish(client, r1, "device_password",
                                     PyStr(password_data.letter))
                    ELSE cmd_publish(client, r1, "device_password", PyStr("Unknown"))
      [] OTHER -> r0

\* A plausible slip: the handler catches ValueError only.
handle_command_mutant(client, cache, out, session, d, command, payload, fails, after) ==
    LET r == command_body(client, cache, out, session, d, command, payload, fails, after)
    IN  [dev |-> r.dev, cache |-> r.cache, out |-> r.out, devcalls |-> r.devcalls,
         pubs |-> r.pubs, raised |-> r.raised,
         escaped |-> r.raised # "" /\ r.raised # ValueError]

\* _handle_command: try: ... except Exception as e: _log.error(...)
handle_command(client, cache, out, session, d, command, payload, fails, after) ==
    LET r == command_body(client, cache, out, session, d, command, payload, fails, after)
    IN  [dev |-> r.dev, cache |-> r.cache, out |-> r.out, devcalls |-> r.devcalls,
         pubs |-> r.pubs, raised |-> r.raised,
         escaped |-> r.raised # "" /\ ~IsException(r.raised)]

\* A plausible slip: the payload is trimmed but not lower-cased.
normalize_mutant(raw) == Strip(raw)

\* payload = msg.payload.decode('utf-8').strip().lower()
normalize(raw) == Lower(Strip(raw))

\* _on_mqtt_message, for a topic under the command topic
on_mqtt_message(client, cache, out, session, d, command, raw, fails, after) ==
    handle_command(client, cache, out, session, d, command, normalize(raw), fails, after)

\* No inbound message handled yet.
NoCommand ==
    [ n |-> 0, kind |-> "none", command |-> "", raw |-> << >>, fails |-> FALSE,
      devcalls |-> << >>, pubs |-> << >>, raised |-> "", escaped |-> FALSE ]

(***************************************************************************)
(* Device sessions.                                                        *)
(*   listener   "free"    no such object                                   *)
(*              "new"     constructed, listen() not called                 *)
(*              "alive"   the listener thread runs                         *)
(*              "dead"    the listener thread ended by itself              *)
(*              "stopped" unlisten() was called                            *)
(*   version    protocol version in force                                  *)
(*   negotiated __ensure_connection locked a version in                    *)
(*   age        seconds since last_update, NoUpdate when it is None;       *)
(*              every age above StaleAfter is the same                     *)
(*   link       the connection can deliver push updates                    *)
(***************************************************************************)
Sessions == 1..MaxSessions

FreeSession ==
    [listener |-> "free", version |-> 0, negotiated |-> FALSE,
     age |-> NoUpdate, link |-> FALSE]

\* A session nothing refers to any more whose listener thread still runs.
LeakedSession == [FreeSession EXCEPT !.listener = "alive"]

\* The sessions after the bridge lets go of session s: the object is garbage
\* unless its listener thread keeps it alive.
Drop(ss, s) ==
    IF s = 0 THEN ss
    ELSE IF ss[s].listener = "alive" THEN [ss EXCEPT ![s] = LeakedSession]
    ELSE [ss EXCEPT ![s] = FreeSession]

FreeIds(ss) == { s \in Sessions : ss[s].listener = "free" }
NewId(ss) == CHOOSE s \in FreeIds(ss) : \A o \in FreeIds(ss) : s <= o

Min(a, b) == IF a < b THEN a ELSE b

\* d seconds pass: the session the bridge holds gets older.
Older(ss, s, d) ==
    IF s = 0 \/ ss[s].age = NoUpdate THEN ss
    ELSE [ss EXCEPT ![s].age = Min(@ + d, StaleAfter + 1)]

(***************************************************************************)
(* Execution contexts.                                                     *)
(***************************************************************************)
Contexts == { "main", "sup", "mqtt" }

\* Locals: ret  where the running _connect_moebot / _disconnect_moebot returns to
\*         why  what the supervisor's current restart was called for
\*         prev what its previous restart was called for, "" once it has
\*              waited the check interval since
\*         cmd  the command being handled
\*         failed  the connect of its latest restart raised, and since then it
\*              has neither waited the check interval nor begun a connect
NoLocals == [ret |-> "", why |-> "", prev |-> "", cmd |-> "", failed |-> FALSE]

DiscPositions == { "disc_if", "disc_unlisten", "disc_clear" }
ConnPositions == { "conn_ctor", "conn_add_listener", "conn_listen", "conn_poll",
                   "conn_publish", "conn_exc_if", "conn_exc_unlisten",
                   "conn_exc_clear" }
\* Inside _restart_moebot
RestartPositions == DiscPositions \cup ConnPositions \cup { "restart_pause" }

Goto(t, l) == pc' = [pc EXCEPT ![t] = l]

\* The state after MoeBotMQTT.__init__
Init ==
    /\ moebot = 0
    /\ mqtt_client = FALSE
    /\ running = FALSE
    /\ stop_event = "none"
    /\ last_stats = [k \in Keys |-> Absent]
    /\ sent = [k \in Keys |-> << >>]
    /\ sess = [s \in Sessions |-> FreeSession]
    /\ dev = Dev0
    /\ pc = [main |-> "m_init", sup |-> "sup_off", mqtt |-> "mq_off"]
    /\ loc = [t \in Contexts |-> NoLocals]
    /\ call = [n |-> 0, key |-> "battery", value |-> PyNone]
    /\ neg = NegStart
    /\ cmd = NoCommand

(***************************************************************************)
(* _disconnect_moebot, run by context t (the supervisor inside             *)
(* _restart_moebot, or the main thread inside stop()).  self.moebot is     *)
(* read three times; another context can run between the reads.            *)
(***************************************************************************)
\* if self.moebot:
DiscIf(t) ==
    /\ pc[t] = "disc_if"
    /\ Goto(t, IF moebot = 0 THEN loc[t].ret ELSE "disc_unlisten")
    /\ UNCHANGED << moebot, mqtt_client, running, stop_event, last_stats, sent,
                    sess, dev, loc, call, neg, cmd >>

\* A plausible slip: the teardown does not call unlisten().
DiscUnlisten_mutant(t) ==
    /\ pc[t] = "disc_unlisten"
    /\ Goto(t, "disc_clear")
    /\ UNCHANGED << moebot, mqtt_client, running, stop_event, last_stats, sent,
                    sess, dev, loc, call, neg, cmd >>

\* self.moebot.unlisten()  -- on None the AttributeError is logged
DiscUnlisten(t) ==
    /\ pc[t] = "disc_unlisten"
    /\ sess' = IF moebot = 0 THEN sess
               ELSE [sess EXCEPT ![moebot].listener = "stopped"]
    /\ Goto(t, "disc_clear")
    /\ UNCHANGED << moebot, mqtt_client, running, stop_event, last_stats, sent,
                    dev, loc, call, neg, cmd >>

\* A plausible slip: the teardown also resets the cache of published stats.
DiscClear_mutant(t) ==
    /\ pc[t] = "disc_clear"
    /\ moebot' = 0
    /\ sess' = Drop(sess, moebot)
    /\ last_stats' = [k \in Keys |-> Absent]
    /\ Goto(t, loc[t].ret)
    /\ UNCHANGED << mqtt_client, running, stop_event, sent, dev, loc, call, neg, cmd >>

\* finally: self.moebot = None
DiscClear(t) ==
    /\ pc[t] = "disc_clear"
    /\ moebot' = 0
    /\ sess' = Drop(sess, moebot)
    /\ Goto(t, loc[t].ret)
    /\ UNCHANGED << mqtt_client, running, stop_event, last_stats, sent,
                    dev, loc, call, neg, cmd >>

(***************************************************************************)
(* _connect_moebot, run by context t (the main thread inside start(), or   *)
(* the supervisor inside _restart_moebot).                                 *)
(***************************************************************************)
\* Where the exception _connect_moebot re-raises is handled: start() has a
\* handler of its own, _restart_moebot logs it and returns.
ExcReturn(t) == IF t = "main" THEN "m_start_handler" ELSE "restart_except"

\* The responses a device with telemetry d can give.
DevResponses(d) == { r \in Responses : r.kind = "dps" => r.battery = d.battery.i }

\* The object MoeBotClient(...) returns after the negotiation n.
new_session(n) ==
    [ listener   |-> "new",
      version    |-> n.version,
      negotiated |-> n.seed # PyNone,
      age        |-> IF n.seed # PyNone THEN 0 ELSE NoUpdate,
      link       |-> n.seed # PyNone ]

\* self.moebot = MoeBotClient(...)  -- the constructor runs the negotiation and
\* returns normally whatever its result; it raises when the parent's
\* constructor does.
ConnCtor(t) ==
    /\ pc[t] = "conn_ctor"
    /\ \/ /\ Goto(t, "conn_exc_if")
          /\ UNCHANGED << moebot, sess >>
       \/ /\ FreeIds(sess) # {}
          /\ \E r1, r2 \in DevResponses(dev) :
                LET n == ensure_connection(<< r1, r2 >>)
                    s == NewId(sess)
                IN /\ moebot' = s
                   /\ sess' = [Drop(sess, moebot) EXCEPT ![s] = new_session(n)]
          /\ Goto(t, "conn_add_listener")
    /\ UNCHANGED << mqtt_client, running, stop_event, last_stats, sent,
                    dev, loc, call, neg, cmd >>

\* self.moebot.add_listener(self._on_moebot_update)
ConnAddListener(t) ==
    /\ pc[t] = "conn_add_listener"
    /\ Goto(t, IF moebot = 0 THEN "conn_exc_if" ELSE "conn_listen")
    /\ UNCHANGED << moebot, mqtt_client, running, stop_event, last_stats, sent,
                    sess, dev, loc, call, neg, cmd >>

\* self.moebot.listen()
ConnListen(t) ==
    /\ pc[t] = "conn_listen"
    /\ \/ /\ Goto(t, "conn_exc_if")
          /\ UNCHANGED sess
       \/ /\ moebot # 0
          /\ sess' = [sess EXCEPT ![moebot].listener = "alive"]
          /\ Goto(t, "conn_poll")
    /\ UNCHANGED << moebot, mqtt_client, running, stop_event, last_stats, sent,
                    dev, loc, call, neg, cmd >>

\* self.moebot.poll(): raises, returns without a payload, or refreshes the state
ConnPoll(t) ==
    /\ pc[t] = "conn_poll"
    /\ \/ /\ Goto(t, "conn_exc_if")
          /\ UNCHANGED sess
       \/ /\ moebot # 0
          /\ UNCHANGED sess
          /\ Goto(t, "conn_publish")
       \/ /\ moebot # 0
          /\ sess' = [sess EXCEPT ![moebot].age = 0, ![moebot].link = TRUE]
          /\ Goto(t, "conn_publish")
    /\ UNCHANGED << moebot, mqtt_client, running, stop_event, last_stats, sent,
                    dev, loc, call, neg, cmd >>

\* self._publish_all_stats(), and the normal return
ConnPublish(t) ==
    /\ pc[t] = "conn_publish"
    /\ LET r == publish_all_stats(mqtt_client, last_stats, sent, moebot, dev)
       IN /\ last_stats' = r.cache
          /\ sent' = r.out
    /\ Goto(t, loc[t].ret)
    /\ UNCHANGED << moebot, mqtt_client, running, stop_event, sess, dev, loc, call, neg, cmd >>

\* except Exception: if hasattr(self, 'moebot') and self.moebot:
ConnExcIf(t) ==
    /\ pc[t] = "conn_exc_if"
    /\ Goto(t, IF moebot = 0 THEN ExcReturn(t) ELSE "conn_exc_unlisten")
    /\ UNCHANGED << moebot, mqtt_client, running, stop_event, last_stats, sent,
                    sess, dev, loc, call, neg, cmd >>

\* A plausible slip: the handler of a failed connect does not call unlisten().
ConnExcUnlisten_mutant(t) ==
    /\ pc[t] = "conn_exc_unlisten"
    /\ Goto(t, "conn_exc_clear")
    /\ UNCHANGED << moebot, mqtt_client, running, stop_event, last_stats, sent,
                    sess, dev, loc, call, neg, cmd >>

\* try: self.moebot.unlisten()  except: pass
ConnExcUnlisten(t) ==
    /\ pc[t] = "conn_exc_unlisten"
    /\ sess' = IF moebot = 0 THEN sess
               ELSE [sess EXCEPT ![moebot].listener = "stopped"]
    /\ Goto(t, "conn_exc_clear")
    /\ UNCHANGED << moebot, mqtt_client, running, stop_event, last_stats, sent,
                    dev, loc, call, neg, cmd >>

\* self.moebot = None; raise
ConnExcClear(t) ==
    /\ pc[t] = "conn_exc_clear"
    /\ moebot' = 0
    /\ sess' = Drop(sess, moebot)
    /\ Goto(t, ExcReturn(t))
    /\ UNCHANGED << mqtt_client, running, stop_event, last_stats, sent,
                    dev, loc, call, neg, cmd >>

(***************************************************************************)
(* _supervisor_loop.  The periodic gc.collect() changes nothing modelled.  *)
(***************************************************************************)
\* The supervisor calls _restart_moebot because of w.
Restart(w) ==
    /\ pc' = [pc EXCEPT !["sup"] = "disc_if"]
    /\ loc' = [loc EXCEPT !["sup"].why = w, !["sup"].ret = "restart_pause"]

\* while self.running and not self._supervisor_stop_event.is_set():
SupLoop ==
    /\ pc["sup"] = "sup_loop"
    /\ Goto("sup", IF running /\ stop_event # "set" THEN "sup_check0" ELSE "sup_done")
    /\ UNCHANGED << moebot, mqtt_client, running, stop_event, last_stats, sent,
                    sess, dev, loc, call, neg, cmd >>

\* Check 0: if self.moebot is None
SupCheck0 ==
    /\ pc["sup"] = "sup_check0"
    /\ \/ /\ moebot = 0
          /\ Restart("absent")
       \/ /\ moebot # 0
          /\ Goto("sup", "sup_check1")
          /\ UNCHANGED loc
    /\ UNCHANGED << moebot, mqtt_client, running, stop_event, last_stats, sent,
                    sess, dev, call, neg, cmd >>

\* Check 1: if self.moebot:
SupCheck1 ==
    /\ pc["sup"] = "sup_check1"
    /\ Goto("sup", IF moebot = 0 THEN "sup_check2" ELSE "sup_alive")
    /\ UNCHANGED << moebot, mqtt_client, running, stop_event, last_stats, sent,
                    sess, dev, loc, call, neg, cmd >>

\* thread_alive = self.moebot.is_listener_alive; if not thread_alive: restart
SupAlive ==
    /\ pc["sup"] = "sup_alive"
    /\ \/ /\ moebot = 0
          /\ Goto("sup", "sup_except")
          /\ UNCHANGED loc
       \/ /\ moebot # 0
          /\ sess[moebot].listener # "alive"
          /\ Restart("dead")
       \/ /\ moebot # 0
          /\ sess[moebot].listener = "alive"
          /\ Goto("sup", "sup_check2")
          /\ UNCHANGED loc
    /\ UNCHANGED << moebot, mqtt_client, running, stop_event, last_stats, sent,
                    sess, dev, call, neg, cmd >>

\* Check 2: if self.moebot:
SupCheck2 ==
    /\ pc["sup"] = "sup_check2"
    /\ Goto("sup", IF moebot = 0 THEN "sup_sleep" ELSE "sup_stale")
    /\ UNCHANGED << moebot, mqtt_client, running, stop_event, last_stats, sent,
                    sess, dev, loc, call, neg, cmd >>

\* A plausible slip: the comparison with the threshold is not strict.
is_stale_mutant(age) == age # NoUpdate /\ age >= StaleAfter

\* if last_update: ... if time_since_update > 60
is_stale(age) == age # NoUpdate /\ age > StaleAfter

\* A plausible slip: a session without last_update counts as stale.
SupStale_mutant ==
    /\ pc["sup"] = "sup_stale"
    /\ \/ /\ moebot = 0
          /\ Goto("sup", "sup_except")
          /\ UNCHANGED loc
       \/ /\ moebot # 0
          /\ (sess[moebot].age = NoUpdate \/ is_stale(sess[moebot].age))
          /\ Restart("stale")
       \/ /\ moebot # 0
          /\ ~(sess[moebot].age = NoUpdate \/ is_stale(sess[moebot].age))
          /\ Goto("sup", "sup_sleep")
          /\ UNCHANGED loc
    /\ UNCHANGED << moebot, mqtt_client, running, stop_event, last_stats, sent,
                    sess, dev, call, neg, cmd >>

\* last_update = self.moebot.last_update; restart when it is too old
SupStale ==
    /\ pc["sup"] = "sup_stale"
    /\ \/ /\ moebot = 0
          /\ Goto("sup", "sup_except")
          /\ UNCHANGED loc
       \/ /\ moebot # 0
          /\ is_stale(sess[moebot].age)
          /\ Restart("stale")
       \/ /\ moebot # 0
          /\ ~is_stale(sess[moebot].age)
          /\ Goto("sup", "sup_sleep")
          /\ UNCHANGED loc
    /\ UNCHANGED << moebot, mqtt_client, running, stop_event, last_stats, sent,
                    sess, dev, call, neg, cmd >>

\* time.sleep(10) at the end of the cycle
SupSleep ==
    /\ pc["sup"] = "sup_sleep"
    /\ sess' = Older(sess, moebot, CheckInterval)
    /\ pc' = [pc EXCEPT !["sup"] = "sup_loop"]
    /\ loc' = [loc EXCEPT !["sup"].prev = "", !["sup"].failed = FALSE]
    /\ UNCHANGED << moebot, mqtt_client, running, stop_event, last_stats, sent,
                    dev, call, neg, cmd >>

\* except Exception: time.sleep(5)
SupExcept ==
    /\ pc["sup"] = "sup_except"
    /\ sess' = Older(sess, moebot, ErrorPause)
    /\ Goto("sup", "sup_loop")
    /\ UNCHANGED << moebot, mqtt_client, running, stop_event, last_stats, sent,
                    dev, loc, call, neg, cmd >>

\* _restart_moebot after _disconnect_moebot: time.sleep(2), then _connect_moebot
RestartPauseStep ==
    /\ pc["sup"] = "restart_pause"
    /\ sess' = Older(sess, moebot, RestartPause)
    /\ pc' = [pc EXCEPT !["sup"] = "conn_ctor"]
    /\ loc' = [loc EXCEPT !["sup"].ret = "restart_return", !["sup"].failed = FALSE]
    /\ UNCHANGED << moebot, mqtt_client, running, stop_event, last_stats, sent,
                    dev, call, neg, cmd >>

\* except Exception: "Failed to restart MoeBot connection"
RestartExcept ==
    /\ pc["sup"] = "restart_except"
    /\ pc' = [pc EXCEPT !["sup"] = "restart_return"]
    /\ loc' = [loc EXCEPT !["sup"].failed = TRUE]
    /\ UNCHANGED << moebot, mqtt_client, running, stop_event, last_stats, sent,
                    sess, dev, call, neg, cmd >>

\* _restart_moebot returns (its connect succeeded or was logged as failed):
\* after Check 0 the loop sleeps before "continue", after Check 1 and Check 2
\* it continues at once.
RestartReturn ==
    /\ pc["sup"] = "restart_return"
    /\ pc' = [pc EXCEPT !["sup"] =
                IF loc["sup"].why = "absent" THEN "sup_cooldown" ELSE "sup_loop"]
    /\ loc' = [loc EXCEPT !["sup"].prev = loc["sup"].why]
    /\ UNCHANGED << moebot, mqtt_client, running, stop_event, last_stats, sent,
                    sess, dev, call, neg, cmd >>

\* time.sleep(10)  # Wait a bit after restart attempt
SupCooldown ==
    /\ pc["sup"] = "sup_cooldown"
    /\ sess' = Older(sess, moebot, CheckInterval)
    /\ pc' = [pc EXCEPT !["sup"] = "sup_loop"]
    /\ loc' = [loc EXCEPT !["sup"].prev = "", !["sup"].failed = FALSE]
    /\ UNCHANGED << moebot, mqtt_client, running, stop_event, last_stats, sent,
                    dev, call, neg, cmd >>

(***************************************************************************)
(* The main thread: start(), the wait for Ctrl+C, stop().                  *)
(***************************************************************************)
\* start(): the MQTT client is created and connected, its network loop
\* started (commands can arrive from now on); then _connect_moebot
MStart ==
    /\ pc["main"] = "m_init"
    /\ mqtt_client' = TRUE
    /\ pc' = [pc EXCEPT !["main"] = "conn_ctor", !["mqtt"] = "mq_idle"]
    /\ loc' = [loc EXCEPT !["main"].ret = "m_start_sup"]
    /\ UNCHANGED << moebot, running, stop_event, last_stats, sent, sess, dev, call, neg, cmd >>

\* except Exception: "Initial MoeBot connection failed"; self.moebot = None
MStartHandler ==
    /\ pc["main"] = "m_start_handler"
    /\ moebot' = 0
    /\ sess' = Drop(sess, moebot)
    /\ Goto("main", "m_start_sup")
    /\ UNCHANGED << mqtt_client, running, stop_event, last_stats, sent, dev, loc, call, neg, cmd >>

\* self.running = True; self._start_supervisor()
MStartSupervisor ==
    /\ pc["main"] = "m_start_sup"
    /\ running' = TRUE
    /\ stop_event' = "clear"
    /\ pc' = [pc EXCEPT !["main"] = "m_wait", !["sup"] = "sup_loop"]
    /\ UNCHANGED << moebot, mqtt_client, last_stats, sent, sess, dev, loc, call, neg, cmd >>

\* stop(): self.running = False; self._supervisor_stop_event.set()
Stop ==
    /\ pc["main"] = "m_wait"
    /\ running' = FALSE
    /\ stop_event' = "set"
    /\ Goto("main", "stop_join")
    /\ UNCHANGED << moebot, mqtt_client, last_stats, sent, sess, dev, loc, call, neg, cmd >>

\* self._supervisor_thread.join(timeout=2.0) returns, the supervisor finished
\* or not; then self._disconnect_moebot()
StopJoin ==
    /\ pc["main"] = "stop_join"
    /\ pc' = [pc EXCEPT !["main"] = "disc_if"]
    /\ loc' = [loc EXCEPT !["main"].ret = "stop_mqtt"]
    /\ UNCHANGED << moebot, mqtt_client, running, stop_event, last_stats, sent,
                    sess, dev, call, neg, cmd >>

\* self.mqtt_client.loop_stop() joins the network thread;
\* self.mqtt_client.disconnect()
StopMqtt ==
    /\ pc["main"] = "stop_mqtt"
    /\ pc["mqtt"] = "mq_idle"
    /\ pc' = [pc EXCEPT !["main"] = "m_stopped", !["mqtt"] = "mq_off"]
    /\ UNCHANGED << moebot, mqtt_client, running, stop_event, last_stats, sent,
                    sess, dev, loc, call, neg, cmd >>

(***************************************************************************)
(* The MQTT network thread: _on_mqtt_message -> _handle_command, for the   *)
(* commands that call the device and then publish.                         *)
(***************************************************************************)
SupervisedCommands == { "start", "poll" }

\* self.moebot.start() / pause() / cancel() / dock() / poll(): on None the
\* AttributeError ends the command, and so does an exception of the call
CmdCall(c) ==
    /\ pc["mqtt"] = "mq_idle"
    /\ \/ UNCHANGED << pc, loc >>
       \/ /\ moebot # 0
          /\ pc' = [pc EXCEPT !["mqtt"] = "cmd_publish"]
          /\ loc' = [loc EXCEPT !["mqtt"].cmd = c]
    /\ UNCHANGED << moebot, mqtt_client, running, stop_event, last_stats, sent,
                    sess, dev, call, neg, cmd >>

\* self._publish_stat("state", self.moebot.state), or after poll
\* self._publish_all_stats()
CmdPublish ==
    /\ pc["mqtt"] = "cmd_publish"
    /\ LET r == IF loc["mqtt"].cmd = "poll"
                THEN publish_all_stats(mqtt_client, last_stats, sent, moebot, dev)
                ELSE IF moebot = 0 THEN [cache |-> last_stats, out |-> sent]
                ELSE publish_stat(mqtt_client, last_stats, sent, "state", dev.state)
       IN /\ last_stats' = r.cache
          /\ sent' = r.out
    /\ pc' = [pc EXCEPT !["mqtt"] = "mq_idle"]
    /\ loc' = [loc EXCEPT !["mqtt"].cmd = ""]
    /\ UNCHANGED << moebot, mqtt_client, running, stop_event, sess, dev, call, neg, cmd >>

(***************************************************************************)
(* The environment: the device and the listener thread of a session.       *)
(***************************************************************************)
\* The listener thread of session s receives a push update: the session's
\* state is refreshed and _on_moebot_update runs _publish_all_stats.
PushUpdate(s) ==
    /\ sess[s].listener = "alive"
    /\ s = moebot => sess[s].link
    /\ sess' = IF s = moebot THEN [sess EXCEPT ![s].age = 0] ELSE sess
    /\ LET r == publish_all_stats(mqtt_client, last_stats, sent, moebot, dev)
       IN /\ last_stats' = r.cache
          /\ sent' = r.out
    /\ UNCHANGED << moebot, mqtt_client, running, stop_event, dev, pc, loc, call, neg, cmd >>

\* The listener thread of session s ends by itself.
ListenerDies(s) ==
    /\ sess[s].listener = "alive"
    /\ sess' = IF s = moebot THEN [sess EXCEPT ![s].listener = "dead"]
               ELSE [sess EXCEPT ![s] = FreeSession]
    /\ UNCHANGED << moebot, mqtt_client, running, stop_event, last_stats, sent,
                    dev, pc, loc, call, neg, cmd >>

\* The connection of the session the bridge holds stops delivering.
LinkLoss ==
    /\ moebot # 0
    /\ sess[moebot].link
    /\ sess' = [sess EXCEPT ![moebot].link = FALSE]
    /\ UNCHANGED << moebot, mqtt_client, running, stop_event, last_stats, sent,
                    dev, pc, loc, call, neg, cmd >>

(***************************************************************************)
(* The bridge with its supervisor.                                         *)
(***************************************************************************)
Callers == { "main", "sup" }

SupStep ==
    \/ SupLoop \/ SupCheck0 \/ SupCheck1 \/ SupAlive \/ SupCheck2 \/ SupStale
    \/ SupSleep \/ SupExcept \/ RestartPauseStep \/ RestartExcept \/ RestartReturn
    \/ SupCooldown

ProcStep(t) ==
    \/ DiscIf(t) \/ DiscUnlisten(t) \/ DiscClear(t)
    \/ ConnCtor(t) \/ ConnAddListener(t) \/ ConnListen(t) \/ ConnPoll(t)
    \/ ConnPublish(t) \/ ConnExcIf(t) \/ ConnExcUnlisten(t) \/ ConnExcClear(t)

MainStep ==
    \/ MStart \/ MStartHandler \/ MStartSupervisor \/ StopJoin \/ StopMqtt

MqttStep == (\E c \in SupervisedCommands : CmdCall(c)) \/ CmdPublish

EnvStep == (\E s \in Sessions : PushUpdate(s) \/ ListenerDies(s)) \/ LinkLoss

Next ==
    \/ SupStep
    \/ \E t \in Callers : ProcStep(t)
    \/ MainStep
    \/ Stop
    \/ MqttStep
    \/ EnvStep

Spec == Init /\ [][Next]_vars

\* Every thread that can take a step eventually takes one; Ctrl+C (Stop), the
\* arrival of a command and the environment are under no obligation.
FairSpec ==
    /\ Spec
    /\ WF_vars(SupStep \/ ProcStep("sup"))
    /\ WF_vars(MainStep \/ ProcStep("main"))
    /\ WF_vars(CmdPublish)

(***************************************************************************)
(* The sequential publisher: _publish_stat called again and again by one   *)
(* caller, each call run to its end before the next.                       *)
(***************************************************************************)
\* Calls of one run.
MaxCalls == 4

PubKeys == { "battery", "mow_in_rain" }
PubValues == { PyInt(50), PyInt(51), PyStr("50"), PyBool(TRUE), PyStr("true"), PyNone }

\* The bridge before or after start() created the MQTT client.
InitPub ==
    /\ moebot = 0
    /\ mqtt_client \in BOOLEAN
    /\ running = FALSE
    /\ stop_event = "none"
    /\ last_stats = [k \in Keys |-> Absent]
    /\ sent = [k \in Keys |-> << >>]
    /\ sess = [s \in Sessions |-> FreeSession]
    /\ dev = Dev0
    /\ pc = [main |-> "m_init", sup |-> "sup_off", mqtt |-> "mq_off"]
    /\ loc = [t \in Contexts |-> NoLocals]
    /\ call = [n |-> 0, key |-> "battery", value |-> PyNone]
    /\ neg = NegStart
    /\ cmd = NoCommand

\* self._publish_stat(k, v)
Publish(k, v) ==
    /\ call.n < MaxCalls
    /\ call' = [n |-> call.n + 1, key |-> k, value |-> v]
    /\ LET r == publish_stat(mqtt_client, last_stats, sent, k, v)
       IN /\ last_stats' = r.cache
          /\ sent' = r.out
    /\ UNCHANGED << moebot, mqtt_client, running, stop_event, sess, dev, pc, loc, neg, cmd >>

NextPub == \E k \in PubKeys, v \in PubValues : Publish(k, v)

SpecPub == InitPub /\ [][NextPub]_vars

\* The payload last emitted for key k, Absent when there is none.
LastEmitted(k) == IF sent[k] = << >> THEN Absent ELSE Last(sent[k])

\* C1 -- Publish idempotence.  Every call of the sequential publisher emits a
\* message on its key if and only if a messaging client is present and the
\* normalized string of its value differs from the payload last emitted on
\* that key (the first call for a key always emits); the message emitted is
\* that normalized string, and no other key receives a message.
C1_PublishIdempotence ==
    [][ call'.n = call.n + 1 =>
          \A k \in Keys :
             /\ sent'[k] # sent[k]
                  <=> /\ mqtt_client
                      /\ k = call'.key
                      /\ payload_of(call'.value) # LastEmitted(k)
             /\ sent'[k] # sent[k] =>
                  /\ sent'[k] = Push(sent[k], payload_of(call'.value))
                  /\ LastEmitted(k)' = payload_of(call'.value) ]_vars

\* publish("battery", 50) twice: after the second call one message is out.
C1_Witness ==
    /\ mqtt_client
    /\ call = [n |-> 2, key |-> "battery", value |-> PyInt(50)]
    /\ sent["battery"] = << "50" >>
    /\ sent["mow_in_rain"] = << >>

(***************************************************************************)
(* The concurrent publisher: _publish_stat called by the device listener   *)
(* thread (_on_moebot_update -> _publish_all_stats) and by the MQTT        *)
(* network thread (command completion, the poll command) at the same time. *)
(* The function takes no lock: the comparison with the cache, the          *)
(* emission and the update of the cache are separate steps.                *)
(***************************************************************************)
Publishers == { "listener", "mqtt" }
ConcKeys == { "battery", "state" }
ConcValues == { PyInt(50), PyInt(51) }

InitConc ==
    /\ moebot = 1
    /\ mqtt_client = TRUE
    /\ running = TRUE
    /\ stop_event = "clear"
    /\ last_stats = [k \in Keys |-> Absent]
    /\ sent = [k \in Keys |-> << >>]
    /\ sess = [s \in Sessions |->
                 IF s = 1 THEN [listener |-> "alive", version |-> 34,
                                negotiated |-> TRUE, age |-> 0, link |-> TRUE]
                 ELSE FreeSession]
    /\ dev = Dev0
    /\ pc = [t \in Publishers |-> "pub_idle"]
    /\ loc = [t \in Publishers |-> [key |-> "", payload |-> ""]]
    /\ call = [n |-> 0, key |-> "battery", value |-> PyNone]
    /\ neg = NegStart
    /\ cmd = NoCommand

\* _publish_stat(k, v) up to the comparison with the cache.  (A call that
\* returns early, for want of a client or of a change, changes nothing.)
PubBegin(t, k, v) ==
    /\ pc[t] = "pub_idle"
    /\ mqtt_client
    /\ last_stats[k] # payload_of(v)
    /\ pc' = [pc EXCEPT ![t] = "pub_emit"]
    /\ loc' = [loc EXCEPT ![t] = [key |-> k, payload |-> payload_of(v)]]
    /\ UNCHANGED << moebot, mqtt_client, running, stop_event, last_stats, sent,
                    sess, dev, call, neg, cmd >>

\* self.mqtt_client.publish(topic, payload, retain=True)
PubEmit(t) ==
    /\ pc[t] = "pub_emit"
    /\ sent' = [sent EXCEPT ![loc[t].key] = Push(@, loc[t].payload)]
    /\ pc' = [pc EXCEPT ![t] = "pub_store"]
    /\ UNCHANGED << moebot, mqtt_client, running, stop_event, last_stats,
                    sess, dev, loc, call, neg, cmd >>

\* self.last_stats[stat_name] = payload
PubStore(t) ==
    /\ pc[t] = "pub_store"
    /\ last_stats' = [last_stats EXCEPT ![loc[t].key] = loc[t].payload]
    /\ pc' = [pc EXCEPT ![t] = "pub_idle"]
    /\ loc' = [loc EXCEPT ![t] = [key |-> "", payload |-> ""]]
    /\ UNCHANGED << moebot, mqtt_client, running, stop_event, sent,
                    sess, dev, call, neg, cmd >>

NextConc ==
    \E t \in Publishers :
        \/ \E k \in ConcKeys, v \in ConcValues : PubBegin(t, k, v)
        \/ PubEmit(t)
        \/ PubStore(t)

SpecConc == InitConc /\ [][NextConc]_vars

\* C2 -- The publisher never emits unchanged state under any interleaving of
\* its triggers: no two consecutive messages on the same stat key carry the
\* same payload.
C2_NoRepeatedPayload ==
    \A k \in Keys :
        \A i \in 1..(Len(sent[k]) - 1) : sent[k][i] # sent[k][i + 1]

(***************************************************************************)
(* The constructor's protocol negotiation, statement by statement; the     *)
(* device answers each status() as it pleases.                             *)
(***************************************************************************)
InitNeg ==
    /\ moebot = 0
    /\ mqtt_client = FALSE
    /\ running = FALSE
    /\ stop_event = "none"
    /\ last_stats = [k \in Keys |-> Absent]
    /\ sent = [k \in Keys |-> << >>]
    /\ sess = [s \in Sessions |-> FreeSession]
    /\ dev = Dev0
    /\ pc = [main |-> "m_init", sup |-> "sup_off", mqtt |-> "mq_off"]
    /\ loc = [t \in Contexts |-> NoLocals]
    /\ call = [n |-> 0, key |-> "battery", value |-> PyNone]
    /\ neg = NegStart
    /\ cmd = NoCommand

NegFrame ==
    UNCHANGED << moebot, mqtt_client, running, stop_event, last_stats, sent,
                 sess, dev, pc, loc, call, cmd >>

NegSetVersion ==
    /\ neg.at = "set_version"
    /\ neg' = neg_set_version(neg)
    /\ NegFrame

NegStatus ==
    /\ neg.at = "status"
    /\ \E r \in Responses : neg' = neg_status(neg, r)
    /\ NegFrame

NegParse ==
    /\ neg.at = "parse"
    /\ neg' = neg_parse(neg)
    /\ NegFrame

NextNeg == NegSetVersion \/ NegStatus \/ NegParse

SpecNeg == InitNeg /\ [][NextNeg]_vars

\* A response with a state payload the parser accepts.
Accepted(r) == r.kind = "dps" /\ r.wellformed

IsPrefix(p, q) == Len(p) <= Len(q) /\ \A i \in 1..Len(p) : p[i] = q[i]

C3_OneReconnectPerDetection ==
    pc["sup"] \in RestartPositions => loc["sup"].prev # "stale"

\* Context t is between the start of a teardown and the end of a connect.
InReconnect(t) == pc[t] \in RestartPositions

\* C4 -- Reconnect is mutually exclusive with itself: at most one context
\* (the supervisor, start(), stop()) is inside a teardown or a connect of the
\* device session.
C4_ReconnectMutex ==
    Cardinality({ t \in Callers : InReconnect(t) }) <= 1

\* C5 -- A command that races a teardown fails gracefully: while a context is
\* inside _disconnect_moebot, a command issues no device call on a session on
\* which unlisten has already been called.
C5_NoCallOnTornDownSession ==
    [][ ( /\ pc["mqtt"] = "mq_idle"
          /\ pc'["mqtt"] = "cmd_publish"
          /\ \E t \in Callers : pc[t] \in DiscPositions )
        => sess[moebot].listener # "stopped" ]_vars

\* C6 -- Resources are released on every exit path: once stop() has returned
\* and the supervisor thread has finished, the bridge holds no device session
\* and no listener thread runs.
C6_ReleasedAfterStop ==
    (pc["main"] = "m_stopped" /\ pc["sup"] = "sup_done") =>
        /\ moebot = 0
        /\ \A s \in Sessions : sess[s].listener # "alive"

\* C7 -- On the stop signal the supervisor loop terminates: once the signal
\* is set the supervisor eventually exits, and it starts no connect attempt
\* after the signal has been set.
C7_SupervisorStops ==
    /\ (stop_event = "set") ~> (pc["sup"] = "sup_done")
    /\ [][ (pc["sup"] # "conn_ctor" /\ pc'["sup"] = "conn_ctor")
           => stop_event # "set" ]_vars

\* The bridge holds no session that delivers telemetry.
Silent ==
    \/ moebot = 0
    \/ sess[moebot].listener # "alive"
    \/ ~sess[moebot].link

\* The bridge runs, its session is silent and the supervisor is not inside a
\* reconnect.
Outage ==
    /\ running
    /\ stop_event = "clear"
    /\ pc["sup"] \notin RestartPositions
    /\ Silent

\* C8 -- No silent permanent outage: while the bridge runs, a state in which
\* the session is absent or has stopped delivering is always followed by a
\* reconnect attempt of the supervisor (or by the session delivering again).
C8_NoPermanentOutage == Outage ~> ~Outage

\* C9 -- Protocol negotiation failure: a session whose negotiation failed
\* under every candidate version is held by the bridge only while the connect
\* that created it is still running; connect does not return with it
\* installed.
C9_FailedNegotiationLeavesNoSession ==
    (moebot # 0 /\ ~sess[moebot].negotiated) =>
        \E t \in Callers : pc[t] \in ConnPositions

\* C11 -- No busy spin on connection failure: after a connect attempt of the
\* supervisor has failed, the supervisor waits the cooldown before it begins
\* its next connect attempt.
C11_CooldownAfterFailedConnect ==
    [][ (pc["sup"] = "restart_pause" /\ pc'["sup"] = "conn_ctor")
        => ~loc["sup"].failed ]_vars

\* C12 -- Reconnect detection is exact: in a check where the bridge holds a
\* session, the supervisor begins a reconnect if and only if the listener
\* liveness probe is false (Check 1) or the age of last_update exceeds the
\* staleness threshold (Check 2); with a session held, no other step of the
\* supervisor begins a reconnect.
C12_ReconnectDetectionExact ==
    [][ /\ (pc["sup"] = "sup_alive" /\ pc'["sup"] # "sup_alive" /\ moebot # 0)
            => (pc'["sup"] = "disc_if" <=> sess[moebot].listener # "alive")
        /\ (pc["sup"] = "sup_stale" /\ pc'["sup"] # "sup_stale" /\ moebot # 0)
            => (pc'["sup"] = "disc_if"
                  <=> (sess[moebot].age # NoUpdate /\ sess[moebot].age > StaleAfter))
        /\ (pc["sup"] # "disc_if" /\ pc'["sup"] = "disc_if" /\ moebot # 0)
            => pc["sup"] \in { "sup_alive", "sup_stale" } ]_vars

\* The supervisor has begun a reconnect of a session whose listener is alive
\* and whose last update is too old.
C12_Witness ==
    /\ pc["sup"] = "disc_if"
    /\ loc["sup"].why = "stale"
    /\ moebot # 0
    /\ sess[moebot].listener = "alive"
    /\ sess[moebot].age > StaleAfter

MaxCmds == 2

\* Payloads sent to cmnd/mow_time
IntPayloads ==
    { << "5", "0" >>, << "0" >>, << "1", "5", "0" >>, << "1" >>, << "9", "9" >>,
      << "1", "0", "0" >>, << "-", "5" >>, << "+", "7" >>, << "0", "0", "7" >>,
      << "5", "_", "0" >>, << " ", "5", "0", "\n" >>, << "8" >>,
      << "a", "b", "c" >>, << >>, << "1", ".", "5" >>, << "5", "_" >> }

\* Payloads sent to cmnd/mow_in_rain
WordPayloads ==
    { << "t", "r", "u", "e" >>, << "T", "R", "U", "E" >>, << "1" >>,
      << "o", "n" >>, << "O", "n" >>, << " ", "o", "n", "\n" >>,
      << "y", "e", "s" >>, << "f", "a", "l", "s", "e" >>, << "0" >>,
      << "o", "f", "f" >>, << "O", "F", "F" >>, << "n", "o" >>,
      << "m", "a", "y", "b", "e" >>, << >>, << "2" >>, << "o", " ", "n" >> }

Spiral == << "s", "p", "i", "r", "a", "l" >>

\* (command, payload) pairs; the command is the topic below the command topic
Messages ==
    ({ "mow_time" } \X IntPayloads)
    \cup ({ "mow_in_rain" } \X WordPayloads)
    \cup ({ "start" } \X { << >>, Spiral, << "S", "P", "I", "R", "A", "L" >> })
    \cup ({ "pause", "cancel", "dock", "poll", "get_errors", "get_password",
            "reboot", "START" } \X { << >> })

\* The telemetry after the device changed its state and substate, its error
\* bitmap, or its password.
Updates(d) ==
    ({ [d EXCEPT !.state = st, !.emergency_state = es] :
          st \in StateValues, es \in SubstateValues }
     \cup { [d EXCEPT !.dps102 = e] : e \in ErrorBitmaps }
     \cup { [d EXCEPT !.dps106 = pw] : pw \in PasswordValues }) \ { d }

InitCmd ==
    /\ moebot \in { 0, 1 }
    /\ mqtt_client = TRUE
    /\ running = TRUE
    /\ stop_event = "clear"
    /\ dev = Dev0
    /\ LET r == publish_all_stats(TRUE, [k \in Keys |-> Absent],
                                  [k \in Keys |-> << >>], moebot, Dev0)
       IN /\ last_stats = r.cache
          /\ sent = r.out
    /\ sess = [s \in Sessions |->
                 IF s = moebot THEN [listener |-> "alive", version |-> 34,
                                     negotiated |-> TRUE, age |-> 0, link |-> TRUE]
                 ELSE FreeSession]
    /\ pc = [main |-> "m_wait", sup |-> "sup_off", mqtt |-> "mq_idle"]
    /\ loc = [t \in Contexts |-> NoLocals]
    /\ call = [n |-> 0, key |-> "battery", value |-> PyNone]
    /\ neg = NegStart
    /\ cmd = NoCommand

CmdFrame ==
    UNCHANGED << moebot, mqtt_client, running, stop_event, sess, pc, loc, call, neg >>

\* The network thread delivers one message: _on_mqtt_message
Handle(command, raw, fails, after) ==
    /\ cmd.n < MaxCmds
    /\ fails => moebot # 0
    /\ (after # dev.state) => (moebot # 0 /\ ~fails /\ command \in StateCommands)
    /\ LET r == on_mqtt_message(mqtt_client, last_stats, sent, moebot, dev,
                                command, raw, fails, after)
       IN /\ dev' = r.dev
          /\ last_stats' = r.cache
          /\ sent' = r.out
          /\ cmd' = [ n |-> cmd.n + 1, kind |-> "command", command |-> command,
                      raw |-> raw, fails |-> fails, devcalls |-> r.devcalls,
                      pubs |-> r.pubs, raised |-> r.raised, escaped |-> r.escaped ]
    /\ CmdFrame

\* The device pushes a change: _on_moebot_update runs _publish_all_stats
DevUpdate(d) ==
    /\ cmd.n < MaxCmds
    /\ moebot # 0
    /\ dev' = d
    /\ LET r == publish_all_stats(mqtt_client, last_stats, sent, moebot, d)
       IN /\ last_stats' = r.cache
          /\ sent' = r.out
    /\ cmd' = [ NoCommand EXCEPT !.n = cmd.n + 1, !.kind = "update",
                  !.pubs = [ i \in 1..Len(StatsOf[d]) |-> StatsOf[d][i][1] ] ]
    /\ CmdFrame

NextCmd ==
    \/ \E m \in Messages, fails \in BOOLEAN, after \in StateValues :
          Handle(m[1], m[2], fails, after)
    \/ \E d \in Updates(dev) : DevUpdate(d)

SpecCmd == InitCmd /\ [][NextCmd]_vars

\* What Python's int() makes of each payload of IntPayloads that it accepts
\* (the sign, leading zeros, an underscore between digits and surrounding
\* whitespace are all part of an integer literal); every other payload of
\* IntPayloads is a ValueError.
IntLiterals ==
    { << << "5", "0" >>, 50 >>, << << "0" >>, 0 >>, << << "1", "5", "0" >>, 150 >>,
      << << "1" >>, 1 >>, << << "9", "9" >>, 99 >>, << << "1", "0", "0" >>, 100 >>,
      << << "-", "5" >>, -5 >>, << << "+", "7" >>, 7 >>, << << "0", "0", "7" >>, 7 >>,
      << << "5", "_", "0" >>, 50 >>, << << " ", "5", "0", "\n" >>, 50 >>,
      << << "8" >>, 8 >> }

\* C13 -- Command validation for mow_time.  For every payload: if it parses
\* as an integer h with 1 <= h <= 99 (and a session is held whose setter
\* returns), the device's mow_time is set to h and exactly one publish, of
\* h on mow_time, follows; if it does not parse or h is outside 1..99, the
\* command makes no device call, no publish, and changes neither the device
\* nor the StatCache nor any topic.
C13_MowTimeValidation ==
    [][ (cmd'.n = cmd.n + 1 /\ cmd'.kind = "command" /\ cmd'.command = "mow_time") =>
          LET accepted == { l \in IntLiterals :
                              l[1] = cmd'.raw /\ 1 <= l[2] /\ l[2] <= 99 }
          IN  /\ (accepted # { } /\ moebot # 0 /\ ~cmd'.fails) =>
                    \A l \in accepted :
                       /\ dev' = [dev EXCEPT !.mow_time = PyInt(l[2])]
                       /\ cmd'.devcalls = << "set_mow_time" >>
                       /\ cmd'.pubs = << "mow_time" >>
                       /\ last_stats' = [last_stats EXCEPT !["mow_time"] = ToString(l[2])]
                       /\ sent' = IF last_stats["mow_time"] = ToString(l[2]) THEN sent
                                  ELSE [sent EXCEPT !["mow_time"] = Push(@, ToString(l[2]))]
              /\ accepted = { } =>
                    /\ dev' = dev
                    /\ cmd'.devcalls = << >>
                    /\ cmd'.pubs = << >>
                    /\ last_stats' = last_stats
                    /\ sent' = sent ]_vars

\* The payload "5_0" was accepted: the device's mow_time is 50 and "50" is
\* the latest message on the mow_time topic.
C13_Witness ==
    /\ cmd.command = "mow_time"
    /\ cmd.raw = << "5", "_", "0" >>
    /\ cmd.pubs = << "mow_time" >>
    /\ dev.mow_time = PyInt(50)
    /\ sent["mow_time"] # << >>
    /\ Last(sent["mow_time"]) = "50"

\* What a mow_in_rain command does when the word w decides it: with a held
\* session whose setter returns, the device's mow_in_rain is set to true
\* exactly when w is an enable word and to false exactly when w is a disable
\* word, followed by the publish of that value; and for every other w the
\* command is dropped: no device call, no publish, nothing changed.
DecidedBy(w) ==
    LET set_to(b) == /\ cmd'.devcalls = << "set_mow_in_rain" >>
                     /\ dev' = [dev EXCEPT !.mow_in_rain = PyBool(b)]
                     /\ cmd'.pubs = << "mow_in_rain" >>
                     /\ last_stats'["mow_in_rain"] = IF b THEN "true" ELSE "false"
    IN  /\ (moebot # 0 /\ ~cmd'.fails) =>
              /\ set_to(TRUE)  <=> w \in { "true", "1", "on", "yes" }
              /\ set_to(FALSE) <=> w \in { "false", "0", "off", "no" }
        /\ w \notin { "true", "1", "on", "yes", "false", "0", "off", "no" } =>
              /\ dev' = dev
              /\ cmd'.devcalls = << >>
              /\ cmd'.pubs = << >>
              /\ last_stats' = last_stats
              /\ sent' = sent

\* C14 as stated -- the word that decides a mow_in_rain command is the
\* payload compared case-insensitively, and nothing else.
C14_CaseInsensitiveOnly ==
    [][ (cmd'.n = cmd.n + 1 /\ cmd'.kind = "command" /\ cmd'.command = "mow_in_rain")
          => DecidedBy(Text(Lower(cmd'.raw))) ]_vars

\* C14 -- Command validation for mow_in_rain: the word that decides the
\* command is the payload with surrounding whitespace removed, compared
\* case-insensitively; the device's mow_in_rain is set to true exactly when
\* it is one of {true, 1, on, yes}, to false exactly when it is one of
\* {false, 0, off, no}, and every other payload is dropped with no device
\* mutation and no publish.
C14_MowInRainValidation ==
    [][ (cmd'.n = cmd.n + 1 /\ cmd'.kind = "command" /\ cmd'.command = "mow_in_rain")
          => DecidedBy(Text(Lower(Strip(cmd'.raw)))) ]_vars

\* The payload "TRUE" switched mow_in_rain on, and "true" was published.
C14_Witness ==
    /\ cmd.command = "mow_in_rain"
    /\ cmd.raw = << "T", "R", "U", "E" >>
    /\ cmd.devcalls = << "set_mow_in_rain" >>
    /\ dev.mow_in_rain = PyBool(TRUE)
    /\ sent["mow_in_rain"] # << >>
    /\ Last(sent["mow_in_rain"]) = "true"

\* C15 -- The command dispatcher never raises out of its entry point: for
\* every command name, payload and session state (absent, held, device call
\* raising) no exception leaves _handle_command; an unknown command name
\* causes no device call and no publish; and when the device call of a
\* mutating command raises, no stat is published for that command.
C15_DispatcherNeverRaises ==
    [][ (cmd'.n = cmd.n + 1 /\ cmd'.kind = "command") =>
          /\ ~cmd'.escaped
          /\ cmd'.command \notin { "start", "pause", "cancel", "dock", "mow_time",
                                   "mow_in_rain", "poll", "get_errors",
                                   "get_password" } =>
                /\ cmd'.devcalls = << >>
                /\ cmd'.pubs = << >>
                /\ dev' = dev /\ last_stats' = last_stats /\ sent' = sent
          /\ (cmd'.raised # "" /\ cmd'.command \in { "start", "pause", "cancel", "dock",
                                                     "mow_time", "mow_in_rain" }) =>
                /\ cmd'.pubs = << >>
                /\ dev' = dev /\ last_stats' = last_stats /\ sent' = sent ]_vars

\* The device call of a start command raised; the exception was caught and
\* nothing was published.
C15_Witness ==
    /\ cmd.kind = "command"
    /\ cmd.command = "start"
    /\ cmd.devcalls = << "start" >>
    /\ cmd.raised = DeviceError
    /\ ~cmd.escaped
    /\ cmd.pubs = << >>

\* C17 -- Every _publish_all_stats publishes emergency_state as the device's
\* substate when the state is EMERGENCY and a substate is present (neither
\* None nor empty), and as the empty string in every other case; so after
\* every _publish_all_stats taken while the state is not EMERGENCY the last
\* value emitted on emergency_state is the empty string.
C17_EmergencyState ==
    [][ (cmd'.n = cmd.n + 1
         /\ \E i \in 1..Len(cmd'.pubs) : cmd'.pubs[i] = "emergency_state") =>
          LET expected ==
                IF /\ dev'.state = PyStr("EMERGENCY")
                   /\ dev'.emergency_state \notin { PyNone, PyStr("") }
                THEN dev'.emergency_state.s ELSE ""
          IN  /\ last_stats'["emergency_state"] = expected
              /\ sent'["emergency_state"] # << >>
              /\ Last(sent'["emergency_state"]) = expected ]_vars

\* The device left EMERGENCY while still reporting the substate LIFTED: the
\* update's _publish_all_stats emitted the empty string after "LIFTED".
C17_Witness ==
    /\ cmd.kind = "update"
    /\ dev.state = PyStr("STANDBY")
    /\ dev.emergency_state = PyStr("LIFTED")
    /\ Len(sent["emergency_state"]) >= 2
    /\ sent["emergency_state"][Len(sent["emergency_state"]) - 1] = "LIFTED"
    /\ Last(sent["emergency_state"]) = ""

\* C18 -- Targeted re-publish: a state-mutating command that succeeds (its
\* device call returned) publishes only its affected stat -- "state" for
\* start, pause, cancel and dock, "mow_time" for mow_time, "mow_in_rain" for
\* mow_in_rain -- and leaves every other StatCache entry and every other
\* topic unchanged.
C18_TargetedRepublish ==
    [][ (/\ cmd'.n = cmd.n + 1
         /\ cmd'.kind = "command"
         /\ cmd'.command \in { "start", "pause", "cancel", "dock",
                               "mow_time", "mow_in_rain" }
         /\ cmd'.devcalls # << >>
         /\ cmd'.raised = "") =>
          LET key == IF cmd'.command \in { "mow_time", "mow_in_rain" }
                     THEN cmd'.command ELSE "state"
          IN  /\ cmd'.pubs = << key >>
              /\ \A k \in Keys \ { key } :
                    last_stats'[k] = last_stats[k] /\ sent'[k] = sent[k] ]_vars

\* A start command in spiral mode succeeded after the device had reported
\* two machine errors: only "state" was published, and the machine_errors
\* entry of the StatCache is as the update left it.
C18_Witness ==
    /\ cmd.kind = "command"
    /\ cmd.command = "start"
    /\ cmd.devcalls = << "start_spiral" >>
    /\ cmd.pubs = << "state" >>
    /\ Last(sent["state"]) = "MOWING"
    /\ dev.dps106 = PyInt(1234)
    /\ dev.dps102 = PyInt(3)
    /\ last_stats["machine_errors"] = "FAULT_LEAN,FAULT_TOO_STEEP"

\* C19 -- device_password is published in its letter form whenever a numeric
\* password is present: for every numeric password the device returns, zero
\* included, a _publish_all_stats (push update or successful poll) and a
\* get_password command whose read succeeds publish decode_password(value)
\* on device_password.
C19_PasswordLetterForm ==
    [][ (/\ cmd'.n = cmd.n + 1
         /\ moebot # 0
         /\ ~cmd'.fails
         /\ cmd'.kind = "update" \/ cmd'.command \in { "poll", "get_password" }
         /\ dev'.dps106.t = "int") =>
          /\ \E i \in 1..Len(cmd'.pubs) : cmd'.pubs[i] = "device_password"
          /\ last_stats'["device_password"] = decode_password(dev'.dps106) ]_vars

(***************************************************************************)
(* ErrorDecoder.decode on its own: one call on one input.                  *)
(***************************************************************************)
\* The largest of the small bitmaps (all combinations of the low bits).
MaxBitmap == 63

\* Strings handed to the decoder
DecodeTexts ==
    { << "3" >>, << " ", "7", "\n" >>, << "1", "_", "0" >>, << "a", "b", "c" >>,
      << >>, << "0", "b", "1", "1" >>, << "3", ".", "0" >> }

\* Values of field 102: small bitmaps, bitmaps around the highest named bit
\* and above it, None, strings, floats.
DecodeInputs ==
    { PyInt(n) : n \in 0..MaxBitmap }
    \cup { PyInt(Pow2(29)), PyInt(Pow2(29) + 1), PyInt(Pow2(30) - 1),
           PyInt(Pow2(30)), PyInt(Pow2(30) + 3) }
    \cup { PyNone }
    \cup { PyText(cs) : cs \in DecodeTexts }
    \cup { PyFloat(0), PyFloat(30), PyFloat(37) }

InitDec ==
    /\ moebot = 0
    /\ mqtt_client = FALSE
    /\ running = FALSE
    /\ stop_event = "none"
    /\ last_stats = [k \in Keys |-> Absent]
    /\ sent = [k \in Keys |-> << >>]
    /\ sess = [s \in Sessions |-> FreeSession]
    /\ dev = Dev0
    /\ pc = [main |-> "m_init", sup |-> "sup_off", mqtt |-> "mq_off"]
    /\ loc = [t \in Contexts |-> NoLocals]
    /\ \E v \in DecodeInputs :
          call = [n |-> 0, key |-> "decode", value |-> v, result |-> << >>]
    /\ neg = NegStart
    /\ cmd = NoCommand

\* ErrorDecoder.decode(error_value)
Decode ==
    /\ call.n = 0
    /\ call' = [call EXCEPT !.n = 1, !.result = decode_errors(call.value)]
    /\ UNCHANGED << moebot, mqtt_client, running, stop_event, last_stats, sent,
                    sess, dev, pc, loc, neg, cmd >>

NextDec == Decode

SpecDec == InitDec /\ [][NextDec]_vars

\* The bit position of a flag name
NameBit(name) == CHOOSE b \in 0..(Len(ERROR_CODES) - 1) : ERROR_CODES[b + 1] = name

\* The bit positions of the names of a result
Positions(r) == { NameBit(r[i]) : i \in 1..Len(r) }

\* The result lists its names in strictly ascending bit position
Ascending(r) ==
    \A i, j \in 1..Len(r) : i < j => NameBit(r[i]) < NameBit(r[j])

\* The set bits of n among the positions 0..top
SetBitsOf(n, top) == { b \in 0..top : (n \div (2 ^ b)) % 2 = 1 }

\* What Python's int() makes of each string of DecodeTexts that it accepts;
\* every other string of DecodeTexts is a ValueError.
DecodeLiterals ==
    { << << "3" >>, 3 >>, << << " ", "7", "\n" >>, 7 >>, << << "1", "_", "0" >>, 10 >> }

\* C20 as stated -- for every integer input the bit positions of the returned
\* names are exactly the set bits of the input, in ascending order; every
\* input that is not an integer yields the empty sequence.
C20_DecodeExact ==
    call.n = 1 =>
       IF call.value.t = "int"
       THEN /\ Positions(call.result) = SetBitsOf(call.value.i, 30)
            /\ Ascending(call.result)
       ELSE call.result = << >>

\* C20 -- decode_errors: for every integer input the bit positions of the
\* returned names are exactly the set bits of the input among the thirty
\* named positions 0..29, in ascending order (0 yields the empty sequence,
\* 0b11 the names of bit 0 then bit 1); an input that is no integer but that
\* int() converts (a numeral string, a finite float) is decoded as the
\* converted integer; an input that int() rejects yields the empty sequence.
C20_DecodeErrors ==
    call.n = 1 =>
       LET v == call.value
           r == call.result
           Decodes(n) == Positions(r) = SetBitsOf(n, 29) /\ Ascending(r)
       IN  CASE v.t = "int"   -> Decodes(v.i)
             [] v.t = "text"  ->
                  IF \E l \in DecodeLiterals : l[1] = v.cs
                  THEN \A l \in DecodeLiterals : l[1] = v.cs => Decodes(l[2])
                  ELSE r = << >>
             [] v.t = "float" ->
                  \A k \in 0..v.i : (10 * k <= v.i /\ v.i < 10 * (k + 1)) => Decodes(k)
             [] OTHER         -> r = << >>

\* The string "3" was decoded to the names of bit 0 and bit 1.
C20_Witness ==
    /\ call.n = 1
    /\ call.value = PyText(<< "3" >>)
    /\ call.result = << "FAULT_LEAN", "FAULT_TOO_STEEP" >>

(***************************************************************************)
(* PasswordDecoder.decode on its own: one call on one input.               *)
(***************************************************************************)
\* The largest of the small passwords (every one- and two-digit pattern of
\* mapped and unmapped digits lies below it).
MaxPassword == 60

\* Passwords that arrive as a string
PasswordTexts ==
    { << "0", "1", "2", "3" >>, << "1", "2", "a", "4" >>, << >> }

\* Values of field 106: None, small and four-digit numbers, strings.
PasswordInputs ==
    { PyNone }
    \cup { PyInt(n) : n \in 0..MaxPassword }
    \cup { PyInt(105), PyInt(1234), PyInt(4321), PyInt(5678), PyInt(9090),
           PyInt(1000), PyInt(9999), PyInt(40404) }
    \cup { PyText(cs) : cs \in PasswordTexts }

InitPwd ==
    /\ moebot = 0
    /\ mqtt_client = FALSE
    /\ running = FALSE
    /\ stop_event = "none"
    /\ last_stats = [k \in Keys |-> Absent]
    /\ sent = [k \in Keys |-> << >>]
    /\ sess = [s \in Sessions |-> FreeSession]
    /\ dev = Dev0
    /\ pc = [main |-> "m_init", sup |-> "sup_off", mqtt |-> "mq_off"]
    /\ loc = [t \in Contexts |-> NoLocals]
    /\ \E v \in PasswordInputs :
          call = [n |-> 0, key |-> "decode_password", value |-> v, result |-> ""]
    /\ neg = NegStart
    /\ cmd = NoCommand

\* PasswordDecoder.decode(password_value)
DecodePassword ==
    /\ call.n = 0
    /\ call' = [call EXCEPT !.n = 1, !.result = decode_password(call.value)]
    /\ UNCHANGED << moebot, mqtt_client, running, stop_event, last_stats, sent,
                    sess, dev, pc, loc, neg, cmd >>

NextPwd == DecodePassword

SpecPwd == InitPwd /\ [][NextPwd]_vars

\* The character each decimal digit 0..9 is rendered as (index: digit + 1)
Rendered == << "0", "A", "B", "C", "D", "5", "6", "7", "8", "9" >>

\* The number of decimal digits of n >= 0
NumDigits(n) ==
    IF n = 0 THEN 1 ELSE CHOOSE k \in 1..9 : 10 ^ (k - 1) <= n /\ n < 10 ^ k

\* The i-th decimal digit of n, counted from the most significant
DigitAt(n, i) == (n \div (10 ^ (NumDigits(n) - i))) % 10

\* C21 -- decode_password: absent input yields the empty string; for a
\* number the result has one character per decimal digit, in order, where
\* the digits 1, 2, 3, 4 become A, B, C, D and every other digit is passed
\* through unchanged (1234 gives ABCD, 105 gives A05); a string is rendered
\* the same way character by character.
C21_DecodePassword ==
    call.n = 1 =>
       LET v == call.value IN
       /\ v.t = "none" => call.result = ""
       /\ v.t = "int" =>
             call.result = Text([ i \in 1..NumDigits(v.i) |->
                                    Rendered[DigitAt(v.i, i) + 1] ])
       /\ v = PyInt(1234) => call.result = "ABCD"
       /\ v = PyInt(105) => call.result = "A05"
       /\ v = PyText(<< "1", "2", "a", "4" >>) => call.result = "ABaD"
       /\ v = PyText(<< "0", "1", "2", "3" >>) => call.result = "0ABC"
       /\ v = PyText(<< >>) => call.result = ""

\* The password 40404 was decoded to D0D0D.
C21_Witness ==
    /\ call.n = 1
    /\ call.value = PyInt(40404)
    /\ call.result = "D0D0D"

\* C22 -- Reconnect step order and outcome.  In every reconnect of the
\* supervisor: the session reference is cleared only after unlisten() was
\* called on that session; the pause begins only with the reference cleared;
\* the connect attempt begins only from the pause; and when _restart_moebot
\* returns, the bridge holds either no session or a session on which
\* listen() was called.
C22_ReconnectOrder ==
    /\ [][ /\ (pc["sup"] = "disc_clear" /\ pc'["sup"] # "disc_clear" /\ moebot # 0)
                => sess[moebot].listener = "stopped"
           /\ (pc["sup"] # "restart_pause" /\ pc'["sup"] = "restart_pause")
                => (pc["sup"] \in { "disc_if", "disc_clear" } /\ moebot' = 0)
           /\ (pc["sup"] # "conn_ctor" /\ pc'["sup"] = "conn_ctor")
                => pc["sup"] = "restart_pause" ]_vars
    /\ [](pc["sup"] = "restart_return"
            => (moebot = 0 \/ sess[moebot].listener \in { "alive", "dead", "stopped" }))

\* A reconnect begun because the listener had died has finished with a new
\* session whose listener runs.
C22_Witness ==
    /\ pc["sup"] = "restart_return"
    /\ loc["sup"].why = "dead"
    /\ moebot # 0
    /\ sess[moebot].listener = "alive"

\* C23 -- Cache coherence: in every state where no publish call is in
\* progress, for every stat key that has been emitted, last_stats[key] is the
\* payload of the most recent message on that key's topic, also after
\* publish calls on the same key that ran concurrently in two contexts.
C23_CacheCoherence ==
    (\A t \in Publishers : pc[t] = "pub_idle") =>
       \A k \in Keys : sent[k] # << >> => last_stats[k] = Last(sent[k])

\* C24 -- A session whose last_update is absent is never judged stale: the
\* supervisor's staleness check passes it by, the passing of time gives it
\* no age, and the only supervisor step that begins a reconnect of such a
\* session is the listener liveness probe finding the listener not alive.
C24_NoUpdateNeverStale ==
    [][ /\ (pc["sup"] = "sup_stale" /\ pc'["sup"] # "sup_stale"
            /\ moebot # 0 /\ sess[moebot].age = NoUpdate)
             => pc'["sup"] = "sup_sleep"
        /\ (pc["sup"] # "disc_if" /\ pc'["sup"] = "disc_if"
            /\ moebot # 0 /\ sess[moebot].age = NoUpdate)
             => (pc["sup"] = "sup_alive" /\ sess[moebot].listener # "alive")
        /\ (pc["sup"] \in { "sup_sleep", "sup_cooldown", "sup_except", "restart_pause" }
            /\ pc'["sup"] # pc["sup"]
            /\ moebot # 0 /\ sess[moebot].age = NoUpdate)
             => sess'[moebot].age = NoUpdate ]_vars

\* The staleness check has passed by a held session that never received an
\* update and whose listener runs.
C24_Witness ==
    /\ pc["sup"] = "sup_sleep"
    /\ moebot # 0
    /\ sess[moebot].age = NoUpdate
    /\ sess[moebot].listener = "alive"

\* The sessions whose listener thread runs (the active push-subscriptions)
Listening == { s \in Sessions : sess[s].listener = "alive" }

\* C25 -- Single device connection: in every reachable state at most one
\* device session has a running listener, and a step that starts the listener
\* of a session finds no other session's listener running -- also when a
\* connect fails part-way and when stop() overlaps a supervisor reconnect.
C25_SingleConnection ==
    /\ [](Cardinality(Listening) <= 1)
    /\ [][ \A s \in Sessions :
             (sess[s].listener # "alive" /\ sess'[s].listener = "alive")
               => Listening = { } ]_vars

\* stop() overlapped a reconnect of the supervisor: the bridge has let go of
\* the session the supervisor connected, both threads have finished, and that
\* session's listener is the only one running.
C25_Witness ==
    /\ pc["main"] = "m_stopped"
    /\ pc["sup"] = "sup_done"
    /\ moebot = 0
    /\ Cardinality(Listening) = 1

====
